---------------------------- MODULE Spec2Model ----------------------------
(***************************************************************************)
(* The Ruby emitter of xgen (GenRuby and its Ruby<Kind> routines) together *)
(* with the resolver and identifier helpers of utils.go.                   *)
(*                                                                         *)
(* A Go string is a sequence of atoms.  An atom is a one-character string  *)
(* (names, type references and documentation are spelled character by      *)
(* character, so that splitting, case conversion and prefix stripping are  *)
(* computed) or one whole literal piece of a format string ("\tclass ").   *)
(* Two equal atom sequences are equal byte strings.                        *)
(***************************************************************************)
EXTENDS Integers, Sequences, FiniteSets, TLC

VARIABLES
    ProtoTree,          \* gen.ProtoTree: the ordered nodes, read-only
    idx,                \* position of the range loop of GenRuby (next node)
    StructAST,          \* gen.StructAST: schema name -> generated fragment
    Field,              \* gen.Field: the accumulated text
    ImportEncodingXML,  \* gen.ImportEncodingXML
    pc,                 \* position inside GenRuby
    file,               \* the artifact gen.File + ".rb"
    createErr,          \* err of os.Create (TRUE: non-nil)
    writeErr,           \* the error f.Write returned (TRUE: non-nil)
    ret,                \* what GenRuby returned
    emitted,            \* history: one record per declaration appended to Field
    calls,              \* history: the resolver calls of the last routine
    run,                \* number of the generation run over this tree
    prevField           \* the accumulated text of the previous run

vars == << ProtoTree, idx, StructAST, Field, ImportEncodingXML, pc, file,
           createErr, writeErr, ret, emitted, calls, run, prevField >>

---------------------------------------------------------------------------
(* Characters *)

Lower == << "a", "b", "c", "d", "e", "f", "g", "h", "i", "j", "k", "l", "m",
            "n", "o", "p", "q", "r", "s", "t", "u", "v", "w", "x", "y", "z" >>

Upper == << "A", "B", "C", "D", "E", "F", "G", "H", "I", "J", "K", "L", "M",
            "N", "O", "P", "Q", "R", "S", "T", "U", "V", "W", "X", "Y", "Z" >>

Digits == { "0", "1", "2", "3", "4", "5", "6", "7", "8", "9" }

IsLower(c) == \E i \in DOMAIN Lower : Lower[i] = c

IsUpper(c) == \E i \in DOMAIN Upper : Upper[i] = c

ToUpperCh(c) ==
    IF IsLower(c) THEN Upper[CHOOSE i \in DOMAIN Lower : Lower[i] = c] ELSE c

ToLowerCh(c) ==
    IF IsUpper(c) THEN Lower[CHOOSE i \in DOMAIN Upper : Upper[i] = c] ELSE c

\* strings.ToUpper / strings.ToLower
ToUpper(s) == [i \in DOMAIN s |-> ToUpperCh(s[i])]

ToLower(s) == [i \in DOMAIN s |-> ToLowerCh(s[i])]

\* strings.Replace(s, old, new, -1) for a one-character old
RECURSIVE ReplaceAll(_, _, _)
ReplaceAll(s, old, new) ==
    IF s = << >> THEN << >>
    ELSE (IF Head(s) = old THEN new ELSE << Head(s) >>)
         \o ReplaceAll(Tail(s), old, new)

\* the text of s before the first sep (all of s when there is none)
RECURSIVE UpTo(_, _)
UpTo(s, sep) ==
    IF s = << >> \/ Head(s) = sep THEN << >>
    ELSE << Head(s) >> \o UpTo(Tail(s), sep)

\* strings.Split(s, sep) for a one-character sep: never empty, Split("") = [""]
RECURSIVE Split(_, _)
Split(s, sep) ==
    LET first == UpTo(s, sep)
    IN  IF Len(first) = Len(s) THEN << first >>
        ELSE << first >> \o Split(SubSeq(s, Len(first) + 2, Len(s)), sep)

\* the concatenation of a sequence of strings
RECURSIVE Concat(_)
Concat(ss) ==
    IF ss = << >> THEN << >> ELSE Head(ss) \o Concat(Tail(ss))

\* whether sub occurs in text
Contains(text, sub) ==
    \E i \in 1..(Len(text) - Len(sub) + 1) :
        SubSeq(text, i, i + Len(sub) - 1) = sub

---------------------------------------------------------------------------
(* utils.go *)

\* MakeFirstUpperCase make the first letter of a string uppercase.
MakeFirstUpperCase(s) ==
    IF Len(s) < 2 THEN ToUpper(s)
    ELSE << ToUpperCh(s[1]) >> \o Tail(s)

\* matchAllCap.ReplaceAllString(input, "${1}_${2}"): an underscore between a
\* lower-case letter or digit and the upper-case letter that follows it
RECURSIVE MatchAllCapReplace(_)
MatchAllCapReplace(s) ==
    IF Len(s) < 2 THEN s
    ELSE IF (IsLower(s[1]) \/ s[1] \in Digits) /\ IsUpper(s[2])
         THEN << s[1], "_" >> \o MatchAllCapReplace(Tail(s))
         ELSE << s[1] >> \o MatchAllCapReplace(Tail(s))

\* ToSnakeCase converts the provided string to snake_case.
ToSnakeCase(input) ==
    ToLower(ReplaceAll(MatchAllCapReplace(input), "-", << "_" >>))

trimNSPrefix(str) ==
    LET split == Split(str, ":")
    IN  IF Len(split) = 2 THEN split[2] ELSE str

\* the plain SimpleType, Attribute or Element nodes named name
Matches(v, name) ==
    /\ v.kind \in {"SimpleType", "Attribute", "Element"}
    /\ v.kind = "SimpleType" => ~v.List /\ ~v.Union
    /\ v.Name = name

\* what a matching node hands back: v.Base of a SimpleType, v.Type otherwise
BaseOf(v) == IF v.kind = "SimpleType" THEN v.Base ELSE v.Type

\* a resolver that looks for a plain SimpleType in the whole tree first, and only
\* then for an Attribute or Element
getBasefromSimpleTypeSimpleFirst(name, XSDSchema) ==
    LET simple == { i \in DOMAIN XSDSchema :
                      /\ XSDSchema[i].kind = "SimpleType"
                      /\ Matches(XSDSchema[i], name) }
        other == { i \in DOMAIN XSDSchema :
                     /\ XSDSchema[i].kind \in {"Attribute", "Element"}
                     /\ Matches(XSDSchema[i], name) }
        least(S) == CHOOSE x \in S : \A y \in S : x <= y
    IN  IF simple # {} THEN XSDSchema[least(simple)].Base
        ELSE IF other # {} THEN XSDSchema[least(other)].Type
        ELSE name

RECURSIVE getBasefromSimpleType(_, _)
getBasefromSimpleType(name, XSDSchema) ==
    IF XSDSchema = << >> THEN name
    ELSE IF Matches(Head(XSDSchema), name) THEN BaseOf(Head(XSDSchema))
         ELSE getBasefromSimpleType(name, Tail(XSDSchema))

\* BuildInTypes, the Ruby column (index supportLang["Ruby"] = 5) of each row
BuildInTypes ==
       (<<"a", "n", "y", "T", "y", "p", "e">> :> <<"S", "t", "r", "i", "n", "g">>)
    @@ (<<"E", "N", "T", "I", "T", "I", "E", "S">> :> <<"A", "r", "r", "a", "y">>)
    @@ (<<"E", "N", "T", "I", "T", "Y">> :> <<"S", "t", "r", "i", "n", "g">>)
    @@ (<<"I", "D">> :> <<"S", "t", "r", "i", "n", "g">>)
    @@ (<<"I", "D", "R", "E", "F">> :> <<"S", "t", "r", "i", "n", "g">>)
    @@ (<<"I", "D", "R", "E", "F", "S">> :> <<"A", "r", "r", "a", "y">>)
    @@ (<<"N", "C", "N", "a", "m", "e">> :> <<"S", "t", "r", "i", "n", "g">>)
    @@ (<<"N", "M", "T", "O", "K", "E", "N">> :> <<"S", "t", "r", "i", "n", "g">>)
    @@ (<<"N", "M", "T", "O", "K", "E", "N", "S">> :> <<"A", "r", "r", "a", "y">>)
    @@ (<<"N", "O", "T", "A", "T", "I", "O", "N">> :> <<"A", "r", "r", "a", "y">>)
    @@ (<<"N", "a", "m", "e">> :> <<"S", "t", "r", "i", "n", "g">>)
    @@ (<<"Q", "N", "a", "m", "e">> :> <<"S", "t", "r", "i", "n", "g">>)
    @@ (<<"a", "n", "y", "U", "R", "I">> :> <<"S", "t", "r", "i", "n", "g">>)
    @@ (<<"b", "a", "s", "e", "6", "4", "B", "i", "n", "a", "r", "y">> :> <<"A", "r", "r", "a", "y">>)
    @@ (<<"b", "o", "o", "l", "e", "a", "n">> :> <<"B", "o", "o", "l", "e", "a", "n">>)
    @@ (<<"b", "y", "t", "e">> :> <<"S", "t", "r", "i", "n", "g">>)
    @@ (<<"d", "a", "t", "e">> :> <<"D", "a", "t", "e">>)
    @@ (<<"d", "a", "t", "e", "T", "i", "m", "e">> :> <<"D", "a", "t", "e", "T", "i", "m", "e">>)
    @@ (<<"d", "e", "c", "i", "m", "a", "l">> :> <<"F", "l", "o", "a", "t">>)
    @@ (<<"d", "o", "u", "b", "l", "e">> :> <<"F", "l", "o", "a", "t">>)
    @@ (<<"d", "u", "r", "a", "t", "i", "o", "n">> :> <<"S", "t", "r", "i", "n", "g">>)
    @@ (<<"f", "l", "o", "a", "t">> :> <<"F", "l", "o", "a", "t">>)
    @@ (<<"g", "D", "a", "y">> :> <<"S", "t", "r", "i", "n", "g">>)
    @@ (<<"g", "M", "o", "n", "t", "h">> :> <<"S", "t", "r", "i", "n", "g">>)
    @@ (<<"g", "M", "o", "n", "t", "h", "D", "a", "y">> :> <<"S", "t", "r", "i", "n", "g">>)
    @@ (<<"g", "Y", "e", "a", "r">> :> <<"S", "t", "r", "i", "n", "g">>)
    @@ (<<"g", "Y", "e", "a", "r", "M", "o", "n", "t", "h">> :> <<"S", "t", "r", "i", "n", "g">>)
    @@ (<<"h", "e", "x", "B", "i", "n", "a", "r", "y">> :> <<"A", "r", "r", "a", "y">>)
    @@ (<<"i", "n", "t">> :> <<"I", "n", "t", "e", "g", "e", "r">>)
    @@ (<<"i", "n", "t", "e", "g", "e", "r">> :> <<"I", "n", "t", "e", "g", "e", "r">>)
    @@ (<<"l", "a", "n", "g", "u", "a", "g", "e">> :> <<"S", "t", "r", "i", "n", "g">>)
    @@ (<<"l", "o", "n", "g">> :> <<"I", "n", "t", "e", "g", "e", "r">>)
    @@ (<<"n", "e", "g", "a", "t", "i", "v", "e", "I", "n", "t", "e", "g", "e", "r">> :> <<"I", "n", "t", "e", "g", "e", "r">>)
    @@ (<<"n", "o", "n", "N", "e", "g", "a", "t", "i", "v", "e", "I", "n", "t", "e", "g", "e", "r">> :> <<"I", "n", "t", "e", "g", "e", "r">>)
    @@ (<<"n", "o", "r", "m", "a", "l", "i", "z", "e", "d", "S", "t", "r", "i", "n", "g">> :> <<"S", "t", "r", "i", "n", "g">>)
    @@ (<<"n", "o", "n", "P", "o", "s", "i", "t", "i", "v", "e", "I", "n", "t", "e", "g", "e", "r">> :> <<"I", "n", "t", "e", "g", "e", "r">>)
    @@ (<<"p", "o", "s", "i", "t", "i", "v", "e", "I", "n", "t", "e", "g", "e", "r">> :> <<"I", "n", "t", "e", "g", "e", "r">>)
    @@ (<<"s", "h", "o", "r", "t">> :> <<"I", "n", "t", "e", "g", "e", "r">>)
    @@ (<<"s", "t", "r", "i", "n", "g">> :> <<"S", "t", "r", "i", "n", "g">>)
    @@ (<<"t", "i", "m", "e">> :> <<"T", "i", "m", "e">>)
    @@ (<<"t", "o", "k", "e", "n">> :> <<"S", "t", "r", "i", "n", "g">>)
    @@ (<<"u", "n", "s", "i", "g", "n", "e", "d", "B", "y", "t", "e">> :> <<"S", "t", "r", "i", "n", "g">>)
    @@ (<<"u", "n", "s", "i", "g", "n", "e", "d", "I", "n", "t">> :> <<"I", "n", "t", "e", "g", "e", "r">>)
    @@ (<<"u", "n", "s", "i", "g", "n", "e", "d", "L", "o", "n", "g">> :> <<"B", "i", "g", "n", "u", "m">>)
    @@ (<<"u", "n", "s", "i", "g", "n", "e", "d", "S", "h", "o", "r", "t">> :> <<"I", "n", "t", "e", "g", "e", "r">>)
    @@ (<<"x", "m", "l", ":", "l", "a", "n", "g">> :> <<"S", "t", "r", "i", "n", "g">>)
    @@ (<<"x", "m", "l", ":", "s", "p", "a", "c", "e">> :> <<"S", "t", "r", "i", "n", "g">>)
    @@ (<<"x", "m", "l", ":", "b", "a", "s", "e">> :> <<"S", "t", "r", "i", "n", "g">>)
    @@ (<<"x", "m", "l", ":", "i", "d">> :> <<"S", "t", "r", "i", "n", "g">>)

\* getBuildInTypeByLang(value, "Ruby"): << buildType, ok >>
getBuildInTypeByLang(value) ==
    IF value \in DOMAIN BuildInTypes THEN << BuildInTypes[value], TRUE >>
    ELSE << << >>, FALSE >>

\* docReplacer of genFieldComment: "\n" -> "\r\n" prefix " ", "\t" -> ""
RECURSIVE docReplace(_, _)
docReplace(doc, prefix) ==
    IF doc = << >> THEN << >>
    ELSE (CASE Head(doc) = "\n" -> << "\r\n" >> \o prefix \o << " " >>
            [] Head(doc) = "\t" -> << >>
            [] OTHER -> << Head(doc) >>)
         \o docReplace(Tail(doc), prefix)

genFieldComment(name, doc, prefix) ==
    IF doc = << >>
    THEN << "\r\n" >> \o prefix \o << " " >> \o name \o << " ...\r\n" >>
    ELSE << "\r\n" >> \o prefix \o << " " >> \o name \o << " is " >>
         \o docReplace(doc, prefix) \o << "\r\n" >>

---------------------------------------------------------------------------
(* The Ruby emitter: identifiers and types *)

rubyBuildinType ==
    { <<"A", "r", "r", "a", "y">>,
      <<"D", "e", "c", "i", "m", "a", "l">>,
      <<"d", "e", "c", "i", "m", "a", "l">>,
      <<"F", "l", "o", "a", "t">>,
      <<"f", "l", "o", "a", "t">>,
      <<"S", "t", "r", "i", "n", "g">>,
      <<"s", "t", "r", "i", "n", "g">>,
      <<"T", "i", "m", "e">>,
      <<"D", "a", "t", "e">>,
      <<"D", "a", "t", "e", "T", "i", "m", "e">>,
      <<"I", "n", "t", "e", "g", "e", "r">>,
      <<"N", "u", "m", "b", "e", "r">> }

RECURSIVE ConcatUpper(_)
ConcatUpper(ss) ==
    IF ss = << >> THEN << >>
    ELSE MakeFirstUpperCase(Head(ss)) \o ConcatUpper(Tail(ss))

genRubyFieldName(name) ==
    LET fieldName == ConcatUpper(Split(name, ":"))
        tmp == ConcatUpper(Split(fieldName, "."))
    IN  ReplaceAll(ReplaceAll(tmp, "-", << >>), "_", << >>)

genRubyFieldType(name) ==
    IF name \in rubyBuildinType THEN name
    ELSE LET joined == ConcatUpper(Split(name, "."))
             fieldType == ReplaceAll(
                 MakeFirstUpperCase(ReplaceAll(joined, "-", << >>)), "_", << >>)
         IN  IF fieldType # << >> THEN fieldType
             ELSE << "S", "t", "r", "i", "n", "g" >>

---------------------------------------------------------------------------
(* Proto tree nodes.  Every node is a record of one shape; a field a kind   *)
(* does not have is empty.  MemberTypes, a Go map, is a set of              *)
(* << memberName, memberType >> pairs with distinct names.                  *)

Node(kind, name, doc, base, list, union, members, type, plural, ref, ags, attrs, groups, elems) ==
    [ kind |-> kind, Name |-> name, Doc |-> doc, Base |-> base, List |-> list,
      Union |-> union, MemberTypes |-> members, Type |-> type,
      Plural |-> plural, Ref |-> ref, AttributeGroup |-> ags,
      Attributes |-> attrs, Groups |-> groups, Elements |-> elems ]

Nil ==
    Node("nil", << >>, << >>, << >>, FALSE, FALSE, {}, << >>, FALSE, << >>,
         << >>, << >>, << >>, << >>)

SimpleType(name, doc, base, list, union, members) ==
    Node("SimpleType", name, doc, base, list, union, members, << >>, FALSE,
         << >>, << >>, << >>, << >>, << >>)

ComplexType(name, attrGroups, attributes, groups, elements) ==
    Node("ComplexType", name, << >>, << >>, FALSE, FALSE, {}, << >>, FALSE,
         << >>, attrGroups, attributes, groups, elements)

Group(name, ref, plural, elements, groups) ==
    Node("Group", name, << >>, << >>, FALSE, FALSE, {}, << >>, plural, ref,
         << >>, << >>, groups, elements)

AttributeGroup(name, ref, attributes) ==
    Node("AttributeGroup", name, << >>, << >>, FALSE, FALSE, {}, << >>, FALSE,
         ref, << >>, attributes, << >>, << >>)

Element(name, type, plural) ==
    Node("Element", name, << >>, << >>, FALSE, FALSE, {}, type, plural, << >>,
         << >>, << >>, << >>, << >>)

Attribute(name, type, plural) ==
    Node("Attribute", name, << >>, << >>, FALSE, FALSE, {}, type, plural,
         << >>, << >>, << >>, << >>, << >>)

(* The names, references and documentation the trees are built from *)

sCode == << "C", "o", "d", "e" >>

sIds == << "i", "d", "s" >>

sCurrency == << "C", "u", "r", "r", "e", "n", "c", "y" >>

sUSD == << "U", "S", "D" >>

sEUR == << "E", "U", "R" >>

sOrder == << "O", "r", "d", "e", "r" >>

sGrp == << "g", "r", "p" >>

sSub == << "s", "u", "b" >>

sAg == << "a", "g" >>

sA == << "a" >>

sItem == << "i", "t", "e", "m" >>

sCustomerId == << "c", "u", "s", "t", "o", "m", "e", "r", "-", "i", "d" >>

sA1 == << "a", "1" >>

sA2 == << "a", "2" >>

sXsString == << "x", "s", ":", "s", "t", "r", "i", "n", "g" >>

sString == << "s", "t", "r", "i", "n", "g" >>

sPositiveInteger == << "p", "o", "s", "i", "t", "i", "v", "e", "I", "n", "t", "e", "g", "e", "r" >>

sArray == << "A", "r", "r", "a", "y" >>

sDoc == << "a", "\n", "\t", "b" >>

\* The nodes a proto tree is drawn from
NodePool ==
    { Nil,
      SimpleType(sCode, sDoc, sXsString, FALSE, FALSE, {}),
      SimpleType(sIds, << >>, sCode, TRUE, FALSE, {}),
      SimpleType(sCurrency, << >>, << >>, FALSE, TRUE,
                 { << sUSD, << >> >>, << sEUR, << >> >> }),
      ComplexType(sOrder,
                  << AttributeGroup(sAg, sAg, << >>) >>,
                  << Attribute(sA, sPositiveInteger, FALSE) >>,
                  << Group(sGrp, sGrp, TRUE, << >>, << >>) >>,
                  << Element(sItem, sCode, TRUE) >>),
      Group(sGrp, << >>, FALSE,
            << Element(sItem, sCode, TRUE) >>,
            << Group(sSub, sGrp, TRUE, << >>, << >>) >>),
      AttributeGroup(sAg, << >>, << Attribute(sA, sXsString, TRUE) >>),
      Element(sCustomerId, sString, FALSE),
      Element(sCode, sOrder, TRUE),
      Attribute(sA1, sCode, FALSE),
      Attribute(sA2, sCode, FALSE),
      Attribute(sCode, sPositiveInteger, FALSE) }

\* The longest proto tree
MaxTree == 3

\* The number of generation runs over one tree
MaxRuns == 2

Trees == UNION { [1..n -> NodePool] : n \in 0..MaxTree }

---------------------------------------------------------------------------
(* Generation state *)

\* a cache lookup that never finds the name
CachedNever(name) == FALSE

\* _, ok := gen.StructAST[name]
Cached(name) == name \in DOMAIN StructAST

\* a routine that forgets to store its fragment
StoreDropped(name, content) == StructAST

\* gen.StructAST[name] = content
Store(name, content) == (name :> content) @@ StructAST

\* getBasefromSimpleType(trimNSPrefix(ref), gen.ProtoTree)
Resolve(ref) == getBasefromSimpleType(trimNSPrefix(ref), ProtoTree)

\* the record of one resolver call: the reference, the name looked up, the result
Call(ref) ==
    [ ref |-> ref, name |-> trimNSPrefix(ref), base |-> Resolve(ref),
      trimmed |-> TRUE ]

CallRaw(name) ==
    [ ref |-> name, name |-> name,
      base |-> getBasefromSimpleType(name, ProtoTree), trimmed |-> FALSE ]

\* the orders in which a range over a Go map may visit its entries
Orders(m) ==
    { f \in [1..Cardinality(m) -> m] :
        \A i, j \in DOMAIN f : i # j => f[i] # f[j] }

\* content += fmt.Sprintf("\t\ttag \"%s\"\n", v.Name) when the identifier differs
TagLine(v) ==
    IF genRubyFieldName(v.Name) # v.Name
    THEN << "\t\ttag \"" >> \o v.Name \o << "\"\n" >>
    ELSE << >>

\* one member of a union: the pair << memberName, memberType >>
UnionMemberLine(m) ==
    LET memberType == IF m[2] = << >>
                      THEN getBasefromSimpleType(m[1], ProtoTree) ELSE m[2]
    IN  << "\t\tattribute :" >> \o ToSnakeCase(genRubyFieldName(m[1]))
        \o << ", 'OTA::" >> \o genRubyFieldType(memberType)
        \o << "', tag: '" >> \o m[1] \o << "'\n" >>

\* one attribute-group reference of a ComplexType
ComplexAttrGroupLine(attrGroup) ==
    << "\t\telement :" >> \o ToSnakeCase(genRubyFieldName(attrGroup.Name))
    \o << ", 'OTA::" >> \o genRubyFieldType(Resolve(attrGroup.Ref))
    \o << "', tag: '" >> \o genRubyFieldName(attrGroup.Name) \o << "'\n" >>

\* one attribute of a ComplexType
ComplexAttributeLine(attribute) ==
    << "\t\t" >>
    \o (IF attribute.Plural THEN << "has_many" >> ELSE << "attribute" >>)
    \o << " :" >> \o ToSnakeCase(genRubyFieldName(attribute.Name))
    \o << ", 'OTA::" >> \o genRubyFieldType(Resolve(attribute.Type))
    \o << "', tag: '" >> \o attribute.Name \o << "'\n" >>

\* one element of a ComplexType
ComplexElementLine(element) ==
    << "\t\t" >>
    \o (IF element.Plural THEN << "has_many" >> ELSE << "element" >>)
    \o << " :" >> \o ToSnakeCase(genRubyFieldName(element.Name))
    \o << ", 'OTA::" >> \o genRubyFieldType(Resolve(element.Type))
    \o << "', tag: '" >> \o element.Name \o << "'\n" >>

\* fmt.Sprintf("\t%s\t%s%s\n", ...), var plural string, set to "" when Plural:
\* a group of a ComplexType or of a Group (ref its Ref), an element of a Group
\* (ref its Type)
PluralPrefix(plural) == IF plural THEN << >> ELSE << >>

GroupRefLine(group) ==
    << "\t" >> \o ToSnakeCase(genRubyFieldName(group.Name)) \o << "\t" >>
    \o PluralPrefix(group.Plural) \o genRubyFieldType(Resolve(group.Ref))
    \o << "\n" >>

GroupElementLine(element) ==
    << "\t" >> \o ToSnakeCase(genRubyFieldName(element.Name)) \o << "\t" >>
    \o PluralPrefix(element.Plural) \o genRubyFieldType(Resolve(element.Type))
    \o << "\n" >>

\* one attribute of an AttributeGroup
AttributeGroupLine(attribute) ==
    << "\t\tattribute :" >> \o ToSnakeCase(genRubyFieldName(attribute.Name))
    \o << ", 'OTA::" >> \o genRubyFieldType(Resolve(attribute.Type))
    \o << "', tag: '" >> \o attribute.Name \o << "'\n" >>

\* the declaration of a class with members, as ComplexType, Group and
\* AttributeGroup append it
ClassDecl(v, content) ==
    << "\t" >> \o genFieldComment(genRubyFieldName(v.Name), v.Doc, << "#" >>)
    \o << "\tclass " >> \o genRubyFieldName(v.Name)
    \o << "\n\t\tinclude XmlMapper\n\n" >> \o content

\* the declaration of a top-level Element or Attribute whose type is typ
AliasContent(typ) == << " < " >> \o typ \o << "; " >>

AliasDecl(v, content) ==
    << "\t" >> \o genFieldComment(genRubyFieldName(v.Name), v.Doc, << "#" >>)
    \o << "\tclass " >> \o genRubyFieldName(v.Name) \o content
    \o << "end\n" >>

\* var plural string = genRubyFieldType(...); if v.Plural { plural = "Array" }
AliasType(v) ==
    IF v.Plural THEN sArray ELSE genRubyFieldType(Resolve(v.Type))

\* the set of the elements of a sequence
Range(s) == { s[i] : i \in DOMAIN s }

(* The routine stores the fragment, appends the declaration and (history)   *)
(* records the declaration and the resolver calls it made.                  *)
Emit(v, content, text, cs, tagged) ==
    /\ StructAST' = Store(v.Name, content)
    /\ Field' = Field \o text
    /\ ImportEncodingXML' = (ImportEncodingXML \/ tagged)
    /\ emitted' = Append(emitted,
                         [ key |-> v.Name, kind |-> v.kind, node |-> idx,
                           from |-> Len(Field) + 1,
                           to |-> Len(Field) + Len(text) ])
    /\ calls' = cs

\* the name is in the cache: the routine returns without a change
NoEmit ==
    /\ calls' = {}
    /\ UNCHANGED << StructAST, Field, ImportEncodingXML, emitted >>

\* the range loop of GenRuby is at a node of this kind
AtNode(kind) ==
    /\ pc = "loop"
    /\ idx <= Len(ProtoTree)
    /\ ProtoTree[idx].kind = kind

\* the loop moves on to the next node
NextNode ==
    /\ idx' = idx + 1
    /\ UNCHANGED << ProtoTree, pc, file, createErr, writeErr, ret, run,
                    prevField >>

---------------------------------------------------------------------------
(* GenRuby *)

Init ==
    /\ ProtoTree \in Trees
    /\ idx = 1
    /\ StructAST = << >>
    /\ Field = << >>
    /\ ImportEncodingXML = FALSE
    /\ pc = "loop"
    /\ file = [ exists |-> FALSE, content |-> << >> ]
    /\ createErr = FALSE
    /\ writeErr = FALSE
    /\ ret = "none"
    /\ emitted = << >>
    /\ calls = {}
    /\ run = 1
    /\ prevField = << >>

\* if ele == nil { continue }
SkipNil ==
    /\ AtNode("nil")
    /\ UNCHANGED << StructAST, Field, ImportEncodingXML, emitted, calls >>
    /\ NextNode

\* RubySimpleType generates code for simple type XML schema in Ruby language
\* syntax.
RubySimpleType ==
    /\ AtNode("SimpleType")
    /\ LET v == ProtoTree[idx]
           fieldName == genRubyFieldName(v.Name)
           comment == genFieldComment(fieldName, v.Doc, << "#" >>)
       IN  IF Cached(v.Name) THEN NoEmit
           ELSE IF v.List
           THEN LET fieldType == genRubyFieldType(Resolve(v.Base))
                    content == << " " >> \o genRubyFieldType(fieldType)
                IN  Emit(v, content,
                         comment \o << "\nclass " >> \o fieldName
                         \o << " < " >> \o content \o << "; end\n" >>,
                         { Call(v.Base) }, FALSE)
           ELSE IF v.Union /\ Cardinality(v.MemberTypes) > 0
           THEN \E order \in Orders(v.MemberTypes) :
                    LET content == TagLine(v)
                                   \o Concat([i \in DOMAIN order |-> UnionMemberLine(order[i])])
                                   \o << "\tend\n" >>
                    IN  Emit(v, content,
                             << "\t" >> \o comment \o << "\tclass " >>
                             \o fieldName
                             \o << "\n\t\tinclude XmlMapper\n\n" >>
                             \o content \o << "\n" >>,
                             { CallRaw(m[1]) :
                                 m \in { x \in v.MemberTypes : x[2] = << >> } },
                             fieldName # v.Name)
           ELSE LET content == << " " >> \o genRubyFieldType(Resolve(v.Base))
                IN  Emit(v, content,
                         << "\t" >> \o comment \o << "\tclass " >>
                         \o fieldName \o << " <" >> \o content
                         \o << "; end\n" >>,
                         { Call(v.Base) }, FALSE)
    /\ NextNode

\* RubyComplexType generates code for complex type XML schema in Ruby language
\* syntax.
RubyComplexType ==
    /\ AtNode("ComplexType")
    /\ LET v == ProtoTree[idx]
           content == TagLine(v)
                      \o Concat([i \in DOMAIN v.AttributeGroup |-> ComplexAttrGroupLine(v.AttributeGroup[i])])
                      \o Concat([i \in DOMAIN v.Attributes |-> ComplexAttributeLine(v.Attributes[i])])
                      \o Concat([i \in DOMAIN v.Groups |-> GroupRefLine(v.Groups[i])])
                      \o Concat([i \in DOMAIN v.Elements |-> ComplexElementLine(v.Elements[i])])
                      \o << "\tend\n" >>
       IN  IF Cached(v.Name) THEN NoEmit
           ELSE Emit(v, content, ClassDecl(v, content),
                     { Call(m.Ref) : m \in Range(v.AttributeGroup) }
                     \cup { Call(m.Type) : m \in Range(v.Attributes) }
                     \cup { Call(m.Ref) : m \in Range(v.Groups) }
                     \cup { Call(m.Type) : m \in Range(v.Elements) },
                     genRubyFieldName(v.Name) # v.Name)
    /\ NextNode

\* RubyGroup generates code for group XML schema in Ruby language syntax.
RubyGroup ==
    /\ AtNode("Group")
    /\ LET v == ProtoTree[idx]
           content == TagLine(v)
                      \o Concat([i \in DOMAIN v.Elements |-> GroupElementLine(v.Elements[i])])
                      \o Concat([i \in DOMAIN v.Groups |-> GroupRefLine(v.Groups[i])])
                      \o << "\tend\n" >>
       IN  IF Cached(v.Name) THEN NoEmit
           ELSE Emit(v, content, ClassDecl(v, content),
                     { Call(m.Type) : m \in Range(v.Elements) }
                     \cup { Call(m.Ref) : m \in Range(v.Groups) },
                     genRubyFieldName(v.Name) # v.Name)
    /\ NextNode

\* RubyAttributeGroup generates code for attribute group XML schema in Ruby
\* language syntax.
RubyAttributeGroup ==
    /\ AtNode("AttributeGroup")
    /\ LET v == ProtoTree[idx]
           content == TagLine(v)
                      \o Concat([i \in DOMAIN v.Attributes |-> AttributeGroupLine(v.Attributes[i])])
                      \o << "\tend\n" >>
       IN  IF Cached(v.Name) THEN NoEmit
           ELSE Emit(v, content, ClassDecl(v, content),
                     { Call(m.Type) : m \in Range(v.Attributes) },
                     genRubyFieldName(v.Name) # v.Name)
    /\ NextNode

\* RubyElement generates code for element XML schema in Ruby language syntax.
RubyElement ==
    /\ AtNode("Element")
    /\ LET v == ProtoTree[idx]
           content == AliasContent(AliasType(v))
       IN  IF Cached(v.Name) THEN NoEmit
           ELSE Emit(v, content, AliasDecl(v, content), { Call(v.Type) },
                     FALSE)
    /\ NextNode

\* a RubyAttribute that caches and declares under the name its type refers to,
\* so that a referenced name is declared where it is first referred to
RubyAttributeByType ==
    /\ AtNode("Attribute")
    /\ LET v == [ProtoTree[idx] EXCEPT !.Name = trimNSPrefix(ProtoTree[idx].Type)]
           content == AliasContent(AliasType(v))
       IN  IF Cached(v.Name) THEN NoEmit
           ELSE Emit(v, content, AliasDecl(v, content), { Call(v.Type) },
                     FALSE)
    /\ NextNode

\* RubyAttribute generates code for attribute XML schema in Ruby language
\* syntax.
RubyAttribute ==
    /\ AtNode("Attribute")
    /\ LET v == ProtoTree[idx]
           content == AliasContent(AliasType(v))
       IN  IF Cached(v.Name) THEN NoEmit
           ELSE Emit(v, content, AliasDecl(v, content), { Call(v.Type) },
                     FALSE)
    /\ NextNode

\* source := []byte(fmt.Sprintf(...)): the assembled file text
Source(text) ==
    << "# frozen_string_literal: true\n\n",
       "# Code generated by xgen. DO NOT EDIT.",
       "\n\nrequire 'xmlmapper'\n\nmodule Ota\n\t" >>
    \o text \o << "\nend" >>

\* the byte counts f.Write may stop at: all of the text, or short of it with an
\* error (nothing written, or all but the last piece)
WriteLengths(source) == { 0, Len(source) - 1, Len(source) }

\* f, err := os.Create(gen.File + ".rb"); if err != nil { return err }
CreateFile ==
    /\ pc = "loop"
    /\ idx > Len(ProtoTree)
    /\ \E ok \in BOOLEAN :
        IF ok
        THEN /\ file' = [ exists |-> TRUE, content |-> << >> ]
             /\ createErr' = FALSE
             /\ pc' = "write"
             /\ ret' = ret
        ELSE /\ file' = file
             /\ createErr' = TRUE
             /\ pc' = "done"
             /\ ret' = "error"
    /\ UNCHANGED << ProtoTree, idx, StructAST, Field, ImportEncodingXML,
                    writeErr, emitted, calls, run, prevField >>

\* f.Write(source); return err  (err is the error of os.Create)
WriteFile ==
    /\ pc = "write"
    /\ \E n \in WriteLengths(Source(Field)) :
        /\ file' = [ file EXCEPT !.content = SubSeq(Source(Field), 1, n) ]
        /\ writeErr' = (n < Len(Source(Field)))
    /\ ret' = IF createErr THEN "error" ELSE "nil"
    /\ pc' = "done"
    /\ UNCHANGED << ProtoTree, idx, StructAST, Field, ImportEncodingXML,
                    createErr, emitted, calls, run, prevField >>

\* a second generation run over the same proto tree, started from an empty
\* Generation State (a new CodeGenerator); the file of the first run stays
Rerun ==
    /\ pc = "done"
    /\ run < MaxRuns
    /\ run' = run + 1
    /\ prevField' = Field
    /\ idx' = 1
    /\ StructAST' = << >>
    /\ Field' = << >>
    /\ ImportEncodingXML' = FALSE
    /\ pc' = "loop"
    /\ createErr' = FALSE
    /\ writeErr' = FALSE
    /\ ret' = "none"
    /\ emitted' = << >>
    /\ calls' = {}
    /\ UNCHANGED << ProtoTree, file >>

Next ==
    \/ SkipNil
    \/ RubySimpleType
    \/ RubyComplexType
    \/ RubyGroup
    \/ RubyAttributeGroup
    \/ RubyElement
    \/ RubyAttribute
    \/ CreateFile
    \/ WriteFile

Spec == Init /\ [][Next]_vars

NextRerun == Next \/ Rerun

SpecRerun == Init /\ [][NextRerun]_vars

---------------------------------------------------------------------------
(* Reading the state *)

\* the text of the declaration a history record stands for
DeclText(e) == SubSeq(Field, e.from, e.to)

\* the history records of the declarations appended for a schema name
DeclsFor(name) == { k \in DOMAIN emitted : emitted[k].key = name }

\* the number of declarations in a text: each opens with one class keyword
ClassAtoms == { "\nclass ", "\tclass " }

CountClass(text) == Cardinality({ i \in DOMAIN text : text[i] \in ClassAtoms })

\* the loop of GenRuby has visited every node
PassDone == idx > Len(ProtoTree)

\* the nodes the loop has visited
Visited == 1..(idx - 1)

IsPrefix(s, t) == Len(s) <= Len(t) /\ SubSeq(t, 1, Len(s)) = s

---------------------------------------------------------------------------
(* Claims *)

\* C1: (idempotent emission) for every schema name carried by a visited node
\* of a handled kind the accumulator holds exactly one declaration, however
\* many nodes carry the name; a routine invoked on a name already in the cache
\* appends nothing, so the accumulator holds as many declarations as there are
\* distinct names.
C1_IdempotentEmission ==
    /\ \A i \in Visited :
        ProtoTree[i].kind # "nil"
            => Cardinality(DeclsFor(ProtoTree[i].Name)) = 1
    /\ \A i \in Visited :
        (\E j \in 1..(i - 1) :
            ProtoTree[j].kind # "nil" /\ ProtoTree[j].Name = ProtoTree[i].Name)
            => \A k \in DOMAIN emitted : emitted[k].node # i
    /\ CountClass(Field)
        = Cardinality({ ProtoTree[i].Name :
                          i \in { j \in Visited : ProtoTree[j].kind # "nil" } })

\* C1 witness: the pass is over a tree in which three nodes of different kinds
\* carry one name, and one declaration was appended.
C1_Witness ==
    /\ PassDone
    /\ Len(ProtoTree) = 3
    /\ \A i \in DOMAIN ProtoTree : ProtoTree[i].Name = ProtoTree[1].Name
    /\ Cardinality({ ProtoTree[i].kind : i \in DOMAIN ProtoTree }) = 3
    /\ "nil" \notin { ProtoTree[i].kind : i \in DOMAIN ProtoTree }
    /\ CountClass(Field) = 1

\* C2: (deterministic output) a second generation run over the same proto tree,
\* started from an empty Generation State, accumulates the same text as the
\* first.
C2_DeterministicOutput ==
    (run > 1 /\ PassDone) => Field = prevField

\* C3: (round-trip name preservation) whenever the identifier computed for a
\* node's name differs from the raw name, the node's declaration holds a tag
\* equal to the raw name.
C3_TagPreserved ==
    \A k \in DOMAIN emitted :
        genRubyFieldName(emitted[k].key) # emitted[k].key
            => Contains(DeclText(emitted[k]),
                        << "\t\ttag \"" >> \o emitted[k].key \o << "\"\n" >>)

\* a member or top-level node with its Plural flag flipped
Flip(m) == [m EXCEPT !.Plural = ~m.Plural]

\* C4: (plurality surfacing) the text emitted for an attribute or element, as a
\* member of a ComplexType, Group or AttributeGroup or as a top-level node,
\* differs from the text emitted for the same attribute or element with its
\* Plural flag flipped.
C4_PluralitySurfaced ==
    \A k \in DOMAIN emitted :
        LET v == ProtoTree[emitted[k].node]
        IN  /\ v.kind \in {"Element", "Attribute"}
                => AliasDecl(v, AliasContent(AliasType(v)))
                   # AliasDecl(v, AliasContent(AliasType(Flip(v))))
            /\ v.kind = "ComplexType"
                => /\ \A m \in Range(v.Attributes) :
                        ComplexAttributeLine(m) # ComplexAttributeLine(Flip(m))
                   /\ \A m \in Range(v.Elements) :
                        ComplexElementLine(m) # ComplexElementLine(Flip(m))
            /\ v.kind = "Group"
                => \A m \in Range(v.Elements) :
                        GroupElementLine(m) # GroupElementLine(Flip(m))
            /\ v.kind = "AttributeGroup"
                => \A m \in Range(v.Attributes) :
                        AttributeGroupLine(m) # AttributeGroupLine(Flip(m))

\* C5: (built-in precedence) a singular top-level Element or Attribute whose
\* type reference is a key of the Built-in Type Table is declared with the
\* table's Ruby column for that key as its type.
C5_BuiltinPrecedence ==
    \A k \in DOMAIN emitted :
        LET v == ProtoTree[emitted[k].node]
        IN  (/\ v.kind \in {"Element", "Attribute"}
             /\ ~v.Plural
             /\ getBuildInTypeByLang(v.Type)[2])
            => DeclText(emitted[k])
               = AliasDecl(v, AliasContent(getBuildInTypeByLang(v.Type)[1]))

\* the names a node refers to: its type or base, and those of its members
RefsOf(v) ==
    { trimNSPrefix(r) :
        r \in (IF v.kind \in {"Element", "Attribute"} THEN { v.Type } ELSE {})
              \cup (IF v.kind = "SimpleType" /\ ~v.Union THEN { v.Base } ELSE {})
              \cup { m.Ref : m \in Range(v.AttributeGroup) \cup Range(v.Groups) }
              \cup { m.Type : m \in Range(v.Attributes) \cup Range(v.Elements) } }

\* node i is the first node of the tree that carries its name
FirstCarrier(i) ==
    /\ ProtoTree[i].kind # "nil"
    /\ \A j \in 1..(i - 1) :
        ProtoTree[j].kind = "nil" \/ ProtoTree[j].Name # ProtoTree[i].Name

\* node i is the first node of the tree that refers to name
FirstReference(i, name) ==
    /\ name \in RefsOf(ProtoTree[i])
    /\ \A j \in 1..(i - 1) : name \notin RefsOf(ProtoTree[j])

\* C6 as stated: when the first node that refers to a name comes before the
\* first node that carries it, the declaration for the name is appended when
\* the loop is at the referring node.
C6_EmittedAtFirstReference ==
    PassDone =>
        \A i, d \in DOMAIN ProtoTree :
            (i < d /\ FirstCarrier(d) /\ FirstReference(i, ProtoTree[d].Name))
                => \E k \in DeclsFor(ProtoTree[d].Name) : emitted[k].node = i

\* C6 amended: every declaration is appended when the loop is at the first node
\* that carries its name, so the declarations lie in the accumulator in the
\* tree order of those nodes; a node that only refers to a name appends no
\* declaration for it.
C6_EmittedAtFirstCarrier ==
    /\ \A k \in DOMAIN emitted :
        /\ ProtoTree[emitted[k].node].Name = emitted[k].key
        /\ FirstCarrier(emitted[k].node)
        /\ Contains(DeclText(emitted[k]),
                    << "\tclass " >> \o genRubyFieldName(emitted[k].key))
           \/ Contains(DeclText(emitted[k]),
                       << "\nclass " >> \o genRubyFieldName(emitted[k].key))
    /\ \A k, l \in DOMAIN emitted :
        k < l => /\ emitted[k].node < emitted[l].node
                 /\ emitted[k].to < emitted[l].from

\* C6 witness: two top-level Attributes refer to a name whose SimpleType comes
\* later, and the declaration for the name was appended at the SimpleType.
C6_Witness ==
    /\ PassDone
    /\ Len(ProtoTree) = 3
    /\ ProtoTree[1].kind = "Attribute" /\ ProtoTree[2].kind = "Attribute"
    /\ ProtoTree[3].kind = "SimpleType"
    /\ ProtoTree[1].Name # ProtoTree[2].Name
    /\ trimNSPrefix(ProtoTree[1].Type) = ProtoTree[3].Name
    /\ trimNSPrefix(ProtoTree[2].Type) = ProtoTree[3].Name
    /\ Len(emitted) = 3
    /\ emitted[3].key = ProtoTree[3].Name

\* C7: (all-or-nothing artifact write) GenRuby returns an error whenever
\* creating the file or writing the text fails, and returns nil only if the
\* file holds the complete assembled text.
C7_AllOrNothingWrite ==
    pc = "done" =>
        /\ (createErr \/ writeErr) => ret = "error"
        /\ ret = "nil" => (file.exists /\ file.content = Source(Field))

\* node names are unique within each construct kind
UniqueWithinKind(tree) ==
    \A i, j \in DOMAIN tree :
        (i # j /\ tree[i].kind # "nil" /\ tree[i].kind = tree[j].kind)
            => tree[i].Name # tree[j].Name

\* C8: (one declaration per definition) after the pass over a tree whose names
\* are unique within each kind, every non-nil node has a declaration of its
\* own in the accumulator.
C8_OneDeclarationPerDefinition ==
    (PassDone /\ UniqueWithinKind(ProtoTree)) =>
        \A i \in DOMAIN ProtoTree :
            ProtoTree[i].kind # "nil"
                => \E k \in DOMAIN emitted : emitted[k].node = i

\* the positions of the nodes matching name
MatchAt(name, tree) == { i \in DOMAIN tree : Matches(tree[i], name) }

Min(S) == CHOOSE x \in S : \A y \in S : x <= y

\* the local name of a reference: what follows its colon when it has exactly
\* one, the reference itself otherwise
LocalName(ref) ==
    LET colons == { i \in DOMAIN ref : ref[i] = ":" }
    IN  IF Cardinality(colons) = 1
        THEN SubSeq(ref, (CHOOSE i \in colons : TRUE) + 1, Len(ref))
        ELSE ref

\* the result the first matching node of any of the three kinds gives
FirstMatch(name, tree) ==
    IF MatchAt(name, tree) = {} THEN name
    ELSE BaseOf(tree[Min(MatchAt(name, tree))])

\* C9 as stated: the resolver returns the Base of the first plain SimpleType
\* with that name if the tree holds one anywhere, else the Type of the first
\* Attribute or Element with that name, else the name.
C9_SimpleTypeFirst ==
    \A c \in calls :
        c.trimmed
            => c.base = getBasefromSimpleTypeSimpleFirst(LocalName(c.ref), ProtoTree)

\* C9 amended: the resolver returns what the first node in tree order that is
\* a plain SimpleType, an Attribute or an Element with that name gives (its
\* Base for a SimpleType, its Type otherwise), whichever kind comes first, and
\* the name itself when no node matches.
C9_FirstMatchWins ==
    \A c \in calls :
        c.trimmed => c.base = FirstMatch(LocalName(c.ref), ProtoTree)

\* C9 witness: a routine resolved a name carried by an Attribute or Element
\* that comes before a plain SimpleType of the same name, and got the Type of
\* the earlier node, which is not the Base of the SimpleType.
C9_Witness ==
    \E c \in calls :
        \E i, j \in DOMAIN ProtoTree :
            /\ c.trimmed
            /\ i < j
            /\ ProtoTree[i].kind \in {"Attribute", "Element"}
            /\ ProtoTree[i].Name = c.name
            /\ ProtoTree[j].kind = "SimpleType"
            /\ ~ProtoTree[j].List /\ ~ProtoTree[j].Union
            /\ ProtoTree[j].Name = c.name
            /\ c.base = ProtoTree[i].Type
            /\ c.base # ProtoTree[j].Base

\* the cache and the accumulator agree in a state
CacheMatchesAccumulator ==
    /\ DOMAIN StructAST = { emitted[k].key : k \in DOMAIN emitted }
    /\ CountClass(Field) = Cardinality(DOMAIN StructAST)
    /\ \A k \in DOMAIN emitted :
        /\ CountClass(DeclText(emitted[k])) = 1
        /\ Contains(DeclText(emitted[k]), StructAST[emitted[k].key])
        /\ emitted[k].from = IF k = 1 THEN 1 ELSE emitted[k - 1].to + 1
    /\ emitted # << >> => emitted[Len(emitted)].to = Len(Field)
    /\ emitted = << >> => Field = << >>

\* a step keeps every cache entry and only appends to the accumulator
CacheAndAccumulatorGrow ==
    /\ \A n \in DOMAIN StructAST :
        n \in DOMAIN StructAST' /\ StructAST'[n] = StructAST[n]
    /\ IsPrefix(Field, Field')

\* C10: (cache/accumulator consistency) in every state of a pass the keys of
\* the cache are the names a declaration was appended for, the accumulator
\* holds as many declarations as the cache has keys, and every step keeps each
\* cache entry as stored and only appends to the accumulator.
C10_CacheAccumulatorConsistency ==
    [](CacheMatchesAccumulator) /\ [][CacheAndAccumulatorGrow]_vars

\* C10 witness: two declarations were appended and a third routine found its
\* name in the cache.
C10_Witness ==
    /\ PassDone
    /\ Len(emitted) = 2
    /\ Cardinality({ i \in DOMAIN ProtoTree : ProtoTree[i].kind # "nil" }) = 3

===========================================================================
